---- MODULE Spec2Model ----
(***************************************************************************)
(* Model of the audio relay: the ingest server (src/audioTest/main.py)     *)
(* with its session directory on disk, and the decision authority it       *)
(* calls, seen through the HTTP responses it may give (Spec, SpecFailOpen, *)
(* SpecInOrder, SpecRace) or as the reference authority of                 *)
(* src/judgeTest/main.py with its counters and files (SpecE2E, SpecJudge). *)
(*                                                                         *)
(* Strings that the code compares with <= (sequence tokens, file names)    *)
(* are tuples of character codes, compared as Python compares str.         *)
(* A file that does not exist is a key missing from the DOMAIN of the      *)
(* function that models its directory.                                     *)
(***************************************************************************)
EXTENDS Integers, Sequences, FiniteSets, TLC

\* ---------------------------------------------------------------- bounds
\* Fragments uploaded in one behaviour.
MaxUploads == 3
\* Fragment payloads are 0..MaxPayload; payload 0 is what ffmpeg cannot decode.
MaxPayload == 1

\* ------------------------------------------------------------ input sets
\* Session ids: the uuid4 strings of start(), or whatever a client sends.
Sessions == {"s1"}

\* Sequence tokens as digit strings: "1", "10", "2" ("10" < "2" as strings).
Tokens == {<<1>>, <<1, 0>>, <<2>>}

\* The container form field.
Containers == {"ogg", "webm"}

Exts == {"ogg", "webm"}

Payloads == 0..MaxPayload

\* json null (Python None) for start_seq / end_seq; no token is empty.
None == <<>>

\* The reference authority answers 'start' to the StartAt-th fragment of a
\* session and 'end' to the EndAt-th.
StartAt == 2

EndAt == 8

\* The k-th token of a client that numbers its fragments "001", "002", ...
SeqToken(k) == <<k \div 100, (k \div 10) % 10, k % 10>>

\* Uploads of the end-to-end scenario: up to the 'end' and one more.
E2EUploads == EndAt + 1

E2ETokens == {SeqToken(k) : k \in 1..E2EUploads}

\* Fixed-width tokens around a change of digit: "008" .. "011".
FixedWidthTokens == {SeqToken(k) : k \in 8..11}

FileNames == [stem : Tokens \cup E2ETokens \cup FixedWidthTokens, ext : Exts]

\* ------------------------------------------------------- string ordering
\* Python str comparison: first differing character decides, a proper
\* prefix is smaller.
RECURSIVE LexLess(_, _)
LexLess(a, b) ==
    IF a = <<>> THEN b # <<>>
    ELSE IF b = <<>> THEN FALSE
    ELSE IF Head(a) # Head(b) THEN Head(a) < Head(b)
    ELSE LexLess(Tail(a), Tail(b))

StrLeq(a, b) == a = b \/ LexLess(a, b)

\* Character codes of a file name "<seq>.<ext>".
ExtCodes(ext) == IF ext = "ogg" THEN <<111, 103, 103>> ELSE <<119, 101, 98, 109>>

NameCodes(f) == [i \in 1..Len(f.stem) |-> 48 + f.stem[i]] \o <<46>> \o ExtCodes(f.ext)

\* Path ordering of files of one directory: by name.
RECURSIVE SortByName(_)
SortByName(S) ==
    IF S = {} THEN <<>>
    ELSE LET m == CHOOSE f \in S : \A g \in S \ {f} : LexLess(NameCodes(f), NameCodes(g))
         IN <<m>> \o SortByName(S \ {m})

\* Every file name there is, sorted (computed once).
AllFilesSorted == SortByName(FileNames)

\* sorted(d.iterdir()) restricted to the raw fragment files S of d.
SortedFiles(S) == SelectSeq(AllFilesSorted, LAMBDA f : f \in S)

\* ------------------------------------------------------------ transcoder
\* run_ffmpeg on one fragment: succeeds or raises, by the payload.
Decodable(b) == b > 0

\* The mono 16 kHz segment ffmpeg writes for a payload.
Normalize(b) == [rate |-> 16000, ch |-> 1, pcm |-> b]

\* -------------------------------------------------------------- metadata
DefaultMeta == [state |-> "waiting", start_seq |-> None, end_seq |-> None]

\* load_meta: the stored record, or the default when meta.json is missing.
LoadMeta(mf, sid) == IF sid \in DOMAIN mf THEN mf[sid] ELSE DefaultMeta

\* ------------------------------------------------------ decision client
\* What the authority (or the network) may answer to POST /ingest-chunk.
\* shape: how the body parses; decision: the value under "decision".
Http(status, ctype, shape, decision) ==
    [kind |-> "http", status |-> status, ctype |-> ctype, shape |-> shape, decision |-> decision]

Timeout == [kind |-> "timeout", status |-> 0, ctype |-> "", shape |-> "empty", decision |-> ""]

TransportError == [kind |-> "transport", status |-> 0, ctype |-> "", shape |-> "empty", decision |-> ""]

\* The answers of an authority that works: no decision, start, end.
VerdictResponses ==
    { Http(204, "", "empty", ""),
      Http(200, "application/json", "object", "start"),
      Http(200, "application/json", "object", "end") }

\* The answers of an authority or a network that may also fail.
JudgeResponses ==
    VerdictResponses \cup
    { Timeout, TransportError,
      Http(200, "application/json; charset=utf-8", "object", "END"),
      Http(200, "application/json", "object", "stop"),
      Http(200, "application/json", "object", ""),
      Http(200, "application/json", "garbage", ""),
      Http(200, "application/json", "array", ""),
      Http(200, "text/html", "object", "end"),
      Http(500, "application/json", "object", "start"),
      Http(500, "application/json", "object", "end"),
      Http(500, "text/plain", "garbage", "") }

\* content-type.startswith("application/json")
IsJsonType(ctype) == ctype \in {"application/json", "application/json; charset=utf-8"}

\* str.lower() on the decision values that occur.
Lower(s) == IF s = "END" THEN "end" ELSE IF s = "START" THEN "start" ELSE s

\* send_to_judge: every exception (timeout, transport, resp.json() on a
\* body that is not JSON, js.get on a body that is no object) is caught and
\* gives "continue".
SendToJudge(resp) ==
    IF resp.kind # "http" THEN "continue"
    ELSE IF resp.status = 204 THEN "continue"
    ELSE IF IsJsonType(resp.ctype)
         THEN IF resp.shape # "object" THEN "continue"
              ELSE IF Lower(resp.decision) \in {"start", "end"}
                   THEN Lower(resp.decision)
                   ELSE "continue"
         ELSE "continue"

\* What may come back from POST /ingest-final.
FinalResponses == {200, 201, 500, 0}

\* send_final_to_judge: true on 200/201; status 0 stands for an exception.
SendFinalToJudge(status) == status \in {200, 201}

\* ------------------------------------------------------ stream assembly
\* Variant: the bounds of the range are exclusive.
InRange_Exclusive(stem, lo, hi) == LexLess(lo, stem) /\ LexLess(stem, hi)

\* Variant: the precondition forgets start_seq.
NotReady_EndOnly(meta) == meta.end_seq = None

\* Variant: the precondition forgets end_seq.
NotReady_StartOnly(meta) == meta.start_seq = None

\* build_final_wav's precondition.
NotReady(meta) == meta.start_seq = None \/ meta.end_seq = None

\* start_seq <= stem <= end_seq
InRange(stem, lo, hi) == StrLeq(lo, stem) /\ StrLeq(stem, hi)

\* The raw fragments of the session in range, in directory order.
SelectParts(rawS, lo, hi) ==
    SelectSeq(SortedFiles(DOMAIN rawS), LAMBDA f : InRange(f.stem, lo, hi))

\* Variant: a fragment that fails to convert is dropped without a skip
\* entry.
ConvertOne_DropsFailure(p, rawS, acc) ==
    IF p.stem \in DOMAIN acc.wav
    THEN [acc EXCEPT !.converted = Append(@, p.stem)]
    ELSE IF Decodable(rawS[p])
    THEN [acc EXCEPT !.wav = [t \in DOMAIN acc.wav \cup {p.stem} |->
                                 IF t = p.stem THEN Normalize(rawS[p]) ELSE acc.wav[t]],
                     !.converted = Append(@, p.stem),
                     !.invoked = Append(@, p)]
    ELSE [acc EXCEPT !.invoked = Append(@, p)]

\* One turn of the conversion loop, on fragment p: acc carries the wav
\* directory, the converted list, the skip list and the fragments ffmpeg
\* was run on.
ConvertOne(p, rawS, acc) ==
    IF p.stem \in DOMAIN acc.wav
    THEN [acc EXCEPT !.converted = Append(@, p.stem)]
    ELSE IF Decodable(rawS[p])
    THEN [acc EXCEPT !.wav = [t \in DOMAIN acc.wav \cup {p.stem} |->
                                 IF t = p.stem THEN Normalize(rawS[p]) ELSE acc.wav[t]],
                     !.converted = Append(@, p.stem),
                     !.invoked = Append(@, p)]
    ELSE [acc EXCEPT !.skipped = Append(@, <<p, "ffmpeg failed">>),
                     !.invoked = Append(@, p)]

\* for p in parts, from parts[i] on. (The CHOOSE from a singleton makes TLC
\* evaluate a turn once.)
RECURSIVE ConvertLoop(_, _, _, _)
ConvertLoop(parts, rawS, i, acc) ==
    IF i > Len(parts) THEN acc
    ELSE CHOOSE r \in { ConvertLoop(parts, rawS, i + 1, a) :
                        a \in {ConvertOne(parts[i], rawS, acc)} } : TRUE

\* sorted(converted, key=stem): a stable insertion sort.
RECURSIVE InsertByStem(_, _)
InsertByStem(sorted, w) ==
    IF sorted = <<>> THEN <<w>>
    ELSE IF LexLess(w, sorted[Len(sorted)])
         THEN Append(InsertByStem(SubSeq(sorted, 1, Len(sorted) - 1), w), sorted[Len(sorted)])
         ELSE Append(sorted, w)

RECURSIVE SortByStem(_)
SortByStem(s) ==
    IF s = <<>> THEN <<>>
    ELSE InsertByStem(SortByStem(SubSeq(s, 1, Len(s) - 1)), s[Len(s)])

\* The lines of concat.txt.
ConcatList(converted, lo, hi) ==
    SelectSeq(SortByStem(converted), LAMBDA w : InRange(w, lo, hi))

\* ffmpeg -f concat -c copy: the segments' samples one after the other.
ConcatCopy(list, wavS) ==
    [rate |-> 16000, ch |-> 1, pcm |-> [i \in 1..Len(list) |-> wavS[list[i]].pcm]]

\* What build_final_wav leaves when it raises err: nothing written but
\* the wav directory as it stands.
Raised(err, wavS) ==
    [err |-> err, wav |-> wavS, concat |-> <<>>, final |-> ConcatCopy(<<>>, wavS),
     skipped |-> <<>>, invoked |-> <<>>, parts |-> <<>>]

\* Variant: no check that something was converted before writing.
BuildConcat_NoEmptyCheck(lo, hi, parts, acc) ==
    [err |-> "none", wav |-> acc.wav, concat |-> ConcatList(acc.converted, lo, hi),
     final |-> ConcatCopy(ConcatList(acc.converted, lo, hi), acc.wav),
     skipped |-> acc.skipped, invoked |-> acc.invoked, parts |-> parts]

\* build_final_wav after the conversion loop (lines 139-157).
BuildConcat(lo, hi, parts, acc) ==
    IF acc.converted = <<>>
    THEN [Raised("total_decode_failure", acc.wav) EXCEPT
             !.skipped = acc.skipped, !.invoked = acc.invoked, !.parts = parts]
    ELSE CHOOSE r \in { [err |-> "none", wav |-> acc.wav, concat |-> list,
                         final |-> ConcatCopy(list, acc.wav),
                         skipped |-> acc.skipped, invoked |-> acc.invoked,
                         parts |-> parts] :
                        list \in {ConcatList(acc.converted, lo, hi)} } : TRUE

\* build_final_wav once the parts are selected (lines 114-137).
BuildParts(lo, hi, parts, rawS, wavS) ==
    IF parts = <<>> THEN Raised("empty_range", wavS)
    ELSE CHOOSE r \in { BuildConcat(lo, hi, parts, acc) :
                        acc \in {ConvertLoop(parts, rawS, 1,
                                    [wav |-> wavS, converted |-> <<>>,
                                     skipped |-> <<>>, invoked |-> <<>>])} } : TRUE

\* build_final_wav(session_id) on the loaded meta: err is the exception
\* raised ("none": it returned); wav is the wav directory afterwards;
\* concat and final are what it writes when it returns; parts and invoked
\* are the fragments it selected and those it ran ffmpeg on.
BuildFinalWav(meta, rawS, wavS) ==
    IF NotReady(meta) THEN Raised("not_ready", wavS)
    ELSE CHOOSE r \in { BuildParts(meta.start_seq, meta.end_seq, parts, rawS, wavS) :
                        parts \in {SelectParts(rawS, meta.start_seq, meta.end_seq)} } : TRUE

\* ----------------------------------------------------------------- state
VARIABLES
    dirs,         \* sessions whose directory exists under sessions/
    metaFile,     \* meta.json per session (missing: not in the DOMAIN)
    raw,          \* raw[sid]: the <seq>.<ext> files, name -> payload
    wav,          \* wav[sid]: the wav/<seq>.wav files, seq -> segment
    concatTxt,    \* concat.txt per session: the list of seq written
    finalWav,     \* final.wav per session
    last,         \* the request handled last and what it did
    asmByUpload,  \* per session: calls of build_final_wav made by upload_chunk
    nUploads,     \* fragments uploaded so far
    inflight,     \* upload_chunk requests being handled step by step
    session_counts, \* the reference authority's counter per session
    inbox,        \* its inbox/<sid>/<seq>.<container> files
    sessions_b,   \* its sessions_b directory: path -> bytes
    finalAck      \* per session: what it last acknowledged as saved, and where

\* The state of the reference authority (src/judgeTest/main.py).
judgeVars == <<session_counts, inbox, sessions_b, finalAck>>

vars == <<dirs, metaFile, raw, wav, concatTxt, finalWav, last, asmByUpload, nUploads,
          inflight, session_counts, inbox, sessions_b, finalAck>>

NoResp == [kind |-> "none", status |-> 0, ctype |-> "", shape |-> "empty", decision |-> ""]

\* The shape of `last`; a handler fills in what applies to it.
NoLast ==
    [op |-> "init", sid |-> "", seq |-> None, http |-> 0, keys |-> {},
     decision |-> "", error |-> "", finalSent |-> FALSE, skipped |-> <<>>,
     asked |-> FALSE, resp |-> NoResp, verdict |-> "", built |-> FALSE, buildErr |-> "",
     parts |-> <<>>, invoked |-> <<>>, submitted |-> FALSE]

\* f with key k set to v (a file written, or a json record saved).
Put(f, k, v) == [x \in DOMAIN f \cup {k} |-> IF x = k THEN v ELSE f[x]]

Init ==
    /\ dirs = {}
    /\ metaFile = <<>>
    /\ raw = [sid \in Sessions |-> <<>>]
    /\ wav = [sid \in Sessions |-> <<>>]
    /\ concatTxt = <<>>
    /\ finalWav = <<>>
    /\ last = NoLast
    /\ asmByUpload = [sid \in Sessions |-> 0]
    /\ nUploads = 0
    /\ inflight = <<>>
    /\ session_counts = <<>>
    /\ inbox = <<>>
    /\ sessions_b = <<>>
    /\ finalAck = <<>>

\* POST /start: a fresh uuid4 names a session that does not exist yet.
Start(sid) ==
    /\ sid \notin dirs
    /\ dirs' = dirs \cup {sid}
    /\ metaFile' = Put(metaFile, sid, DefaultMeta)
    /\ last' = [NoLast EXCEPT !.op = "start", !.sid = sid, !.http = 200,
                              !.keys = {"sessionId"}]
    /\ UNCHANGED <<raw, wav, concatTxt, finalWav, asmByUpload, nUploads>>
    /\ UNCHANGED <<inflight, judgeVars>>

\* Variant: 'start' is taken in any state.
MetaUpdate_StartAnyState(meta, decision, seq) ==
    IF decision = "start"
    THEN [save |-> TRUE, meta |-> [meta EXCEPT !.state = "recording", !.start_seq = seq]]
    ELSE IF decision = "end"
    THEN [save |-> TRUE, meta |-> [meta EXCEPT !.state = "ended", !.end_seq = seq]]
    ELSE [save |-> FALSE, meta |-> meta]

\* Variant: 'end' in a session that never started takes seq as start_seq too.
MetaUpdate_EndSetsStart(meta, decision, seq) ==
    IF decision = "start" /\ meta.state = "waiting"
    THEN [save |-> TRUE, meta |-> [meta EXCEPT !.state = "recording", !.start_seq = seq]]
    ELSE IF decision = "end"
    THEN [save |-> TRUE,
          meta |-> [meta EXCEPT !.state = "ended", !.end_seq = seq,
                                !.start_seq = IF @ = None THEN seq ELSE @]]
    ELSE [save |-> FALSE, meta |-> meta]

\* Variant: 'end' records end_seq and leaves the state as it is.
MetaUpdate_EndKeepsState(meta, decision, seq) ==
    IF decision = "start" /\ meta.state = "waiting"
    THEN [save |-> TRUE, meta |-> [meta EXCEPT !.state = "recording", !.start_seq = seq]]
    ELSE IF decision = "end"
    THEN [save |-> TRUE, meta |-> [meta EXCEPT !.end_seq = seq]]
    ELSE [save |-> FALSE, meta |-> meta]

\* upload_chunk's branches on the verdict (lines 186-194): the metadata
\* after them and whether save_meta is called.
MetaUpdate(meta, decision, seq) ==
    IF decision = "start" /\ meta.state = "waiting"
    THEN [save |-> TRUE, meta |-> [meta EXCEPT !.state = "recording", !.start_seq = seq]]
    ELSE IF decision = "end"
    THEN [save |-> TRUE, meta |-> [meta EXCEPT !.state = "ended", !.end_seq = seq]]
    ELSE [save |-> FALSE, meta |-> meta]

\* Variant: no early return for a session that ended.
SkipsJudge_Never(meta) == FALSE

\* upload_chunk returns early, without asking, for a session that ended.
SkipsJudge(meta) == meta.state = "ended"

\* upload_chunk on verdict "end", the metadata being saved: assemble and
\* submit (the submission is answered by some fin of F).
UploadEnd(sid, rawS, asked, F) ==
    \E b \in {BuildFinalWav(LoadMeta(metaFile', sid), rawS, wav[sid])} :
    LET built == [asked EXCEPT !.built = TRUE, !.buildErr = b.err,
                               !.parts = b.parts, !.invoked = b.invoked]
    IN
    /\ asmByUpload' = [asmByUpload EXCEPT ![sid] = @ + 1]
    /\ wav' = [wav EXCEPT ![sid] = b.wav]
    /\ IF b.err = "none"
       THEN /\ concatTxt' = Put(concatTxt, sid, b.concat)
            /\ finalWav' = Put(finalWav, sid, b.final)
            /\ \E fin \in F :
                 last' = [built EXCEPT
                            !.http = 200,
                            !.keys = {"decision", "finalSent", "skipped"},
                            !.decision = "end",
                            !.finalSent = SendFinalToJudge(fin),
                            !.skipped = b.skipped,
                            !.submitted = TRUE]
       ELSE /\ UNCHANGED <<concatTxt, finalWav>>
            /\ last' = [built EXCEPT !.http = 500, !.keys = {"error", "detail"},
                                     !.error = "upload_failed"]

\* The rest of upload_chunk once the fragment is stored as rawS and the
\* session is not ended: ask (the authority answers resp) and update.
UploadDecide(sid, seq, rawS, meta, resp, base, F) ==
    \E decision \in {SendToJudge(resp)} :
    \E upd \in {MetaUpdate(meta, decision, seq)} :
    LET asked == [base EXCEPT !.asked = TRUE, !.resp = resp, !.verdict = decision]
    IN
    /\ metaFile' = IF upd.save THEN Put(metaFile, sid, upd.meta) ELSE metaFile
    /\ IF decision = "end"
       THEN UploadEnd(sid, rawS, asked, F)
       ELSE /\ last' = [asked EXCEPT !.http = 200, !.keys = {"decision"},
                                     !.decision = decision]
            /\ UNCHANGED <<wav, concatTxt, finalWav, asmByUpload>>

\* The file upload_chunk writes: "<seq>.ogg", or "<seq>.webm" for any
\* other container.
OutPath(seq, container) ==
    [stem |-> seq, ext |-> IF container = "ogg" THEN "ogg" ELSE "webm"]

\* POST /upload-chunk, handled from the first line to the response; R is
\* what the authority may answer to the fragment, F to the final file.
UploadChunk(sid, seq, container, payload, R, F) ==
    \E rawS \in {Put(raw[sid], OutPath(seq, container), payload)} :
    LET meta == LoadMeta(metaFile, sid)
        base == [NoLast EXCEPT !.op = "upload", !.sid = sid, !.seq = seq]
    IN
    /\ nUploads' = nUploads + 1
    /\ dirs' = dirs \cup {sid}
    /\ raw' = [raw EXCEPT ![sid] = rawS]
    /\ IF SkipsJudge(meta)
       THEN /\ last' = [base EXCEPT !.http = 200, !.keys = {"decision"},
                                    !.decision = "continue"]
            /\ UNCHANGED <<metaFile, wav, concatTxt, finalWav, asmByUpload>>
       ELSE \E resp \in R :
                UploadDecide(sid, seq, rawS, meta, resp, base, F)

\* POST /finalize
Finalize(sid) ==
    \E b \in {BuildFinalWav(LoadMeta(metaFile, sid), raw[sid], wav[sid])} :
    LET base == [NoLast EXCEPT !.op = "finalize", !.sid = sid, !.built = TRUE,
                               !.buildErr = b.err, !.parts = b.parts,
                               !.invoked = b.invoked]
    IN
    /\ dirs' = dirs \cup {sid}
    /\ wav' = [wav EXCEPT ![sid] = b.wav]
    /\ IF b.err = "none"
       THEN /\ concatTxt' = Put(concatTxt, sid, b.concat)
            /\ finalWav' = Put(finalWav, sid, b.final)
            /\ last' = [base EXCEPT !.http = 200, !.keys = {"fileUrl", "skipped"},
                                    !.skipped = b.skipped]
       ELSE /\ UNCHANGED <<concatTxt, finalWav>>
            /\ last' = [base EXCEPT !.http = 500, !.keys = {"error", "detail"},
                                    !.error = "ffmpeg_failed"]
    /\ UNCHANGED <<metaFile, raw, asmByUpload, nUploads>>
    /\ UNCHANGED <<inflight, judgeVars>>

\* Variant: download answers with the file whether it exists or not.
Download_NoExistsCheck(sid) ==
    /\ dirs' = dirs \cup {sid}
    /\ last' = [NoLast EXCEPT !.op = "download", !.sid = sid, !.http = 200,
                              !.keys = {"file"}]
    /\ UNCHANGED <<metaFile, raw, wav, concatTxt, finalWav, asmByUpload, nUploads>>
    /\ UNCHANGED <<inflight, judgeVars>>

\* GET /download/{session_id}
Download(sid) ==
    /\ dirs' = dirs \cup {sid}
    /\ last' = IF sid \in DOMAIN finalWav
               THEN [NoLast EXCEPT !.op = "download", !.sid = sid, !.http = 200,
                                   !.keys = {"file"}]
               ELSE [NoLast EXCEPT !.op = "download", !.sid = sid, !.http = 404,
                                   !.keys = {"error"}, !.error = "not ready"]
    /\ UNCHANGED <<metaFile, raw, wav, concatTxt, finalWav, asmByUpload, nUploads>>
    /\ UNCHANGED <<inflight, judgeVars>>

\* ------------------------------------- upload_chunk, one step at a time
\* Requests that can be in the handler at once.
Requests == {1, 2}

\* f without key k.
Drop(f, k) == [x \in DOMAIN f \ {k} |-> f[x]]

\* Lines 173-182 of request r: the fragment is written and the metadata
\* loaded into the request's own meta; a session that ended is answered
\* at once.
RaceBegin(r, sid, seq, container, payload) ==
    LET meta == LoadMeta(metaFile, sid)
        base == [NoLast EXCEPT !.op = "upload", !.sid = sid, !.seq = seq]
    IN
    /\ r \notin DOMAIN inflight
    /\ \A q \in Requests : q < r => q \in DOMAIN inflight
    /\ nUploads < MaxUploads
    /\ nUploads' = nUploads + 1
    /\ dirs' = dirs \cup {sid}
    /\ raw' = [raw EXCEPT ![sid] = Put(@, OutPath(seq, container), payload)]
    /\ IF SkipsJudge(meta)
       THEN /\ last' = [base EXCEPT !.http = 200, !.keys = {"decision"},
                                    !.decision = "continue"]
            /\ UNCHANGED inflight
       ELSE /\ inflight' = Put(inflight, r, [pc |-> "loaded", sid |-> sid, seq |-> seq,
                                             meta |-> meta, base |-> base])
            /\ UNCHANGED last
    /\ UNCHANGED <<metaFile, wav, concatTxt, finalWav, asmByUpload, judgeVars>>

\* Lines 184-194 and 201 of request r: the authority answers resp, the
\* request updates the metadata it loaded and saves it; on 'end' it goes on
\* to assemble, otherwise it answers.
RaceUpdate(r, resp) ==
    /\ r \in DOMAIN inflight
    /\ inflight[r].pc = "loaded"
    /\ \E decision \in {SendToJudge(resp)} :
       \E upd \in {MetaUpdate(inflight[r].meta, decision, inflight[r].seq)} :
       LET asked == [inflight[r].base EXCEPT !.asked = TRUE, !.resp = resp,
                                            !.verdict = decision]
       IN
       /\ metaFile' = IF upd.save THEN Put(metaFile, inflight[r].sid, upd.meta)
                                  ELSE metaFile
       /\ IF decision = "end"
          THEN /\ inflight' = [inflight EXCEPT ![r].pc = "build", ![r].base = asked]
               /\ UNCHANGED last
          ELSE /\ inflight' = Drop(inflight, r)
               /\ last' = [asked EXCEPT !.http = 200, !.keys = {"decision"},
                                        !.decision = decision]
    /\ UNCHANGED <<dirs, raw, wav, concatTxt, finalWav, asmByUpload, nUploads, judgeVars>>

\* Lines 196-199 (and 203-204) of request r: assemble from what is stored
\* now, submit, answer.
RaceBuild(r) ==
    /\ r \in DOMAIN inflight
    /\ inflight[r].pc = "build"
    /\ metaFile' = metaFile
    /\ UploadEnd(inflight[r].sid, raw[inflight[r].sid], inflight[r].base, FinalResponses)
    /\ inflight' = Drop(inflight, r)
    /\ UNCHANGED <<dirs, raw, nUploads, judgeVars>>

\* ---------------------------------------------- the reference authority
\* session_counts.get(sessionId, 0)
CountOf(counts, sid) == IF sid \in DOMAIN counts THEN counts[sid] ELSE 0

\* ingest_chunk's answer to the n-th fragment of a session.
IngestChunkReply(n) ==
    IF n = StartAt THEN Http(200, "application/json", "object", "start")
    ELSE IF n = EndAt THEN Http(200, "application/json", "object", "end")
    ELSE Http(204, "", "empty", "")

\* What ingest_chunk does to the authority's state.
IngestChunkEffect(sid, seq, container, payload) ==
    /\ inbox' = Put(inbox, <<sid, seq, container>>, payload)
    /\ session_counts' = Put(session_counts, sid, CountOf(session_counts, sid) + 1)

\* Where ingest_final writes the final file of session sid.
FinalPath(sid) == <<"sessions_b", "final.wav">>

\* The status of ingest_final's answer when the file is written.
IngestFinalStatus == 201

\* What ingest_final does to the authority's state; finalAck keeps its
\* answer {saved, path} with the bytes it was given.
IngestFinalEffect(sid, bytes) ==
    /\ sessions_b' = Put(sessions_b, FinalPath(sid), bytes)
    /\ finalAck' = Put(finalAck, sid, [saved |-> TRUE, path |-> FinalPath(sid),
                                       bytes |-> bytes])

\* The variables of the ingest server.
ingestVars == <<dirs, metaFile, raw, wav, concatTxt, finalWav, asmByUpload, nUploads,
                inflight>>

\* POST /ingest-chunk as the authority handles it.
IngestChunk(sid, seq, container, payload) ==
    \E reply \in {IngestChunkReply(CountOf(session_counts, sid) + 1)} :
    /\ IngestChunkEffect(sid, seq, container, payload)
    /\ last' = [NoLast EXCEPT !.op = "ingest_chunk", !.sid = sid, !.seq = seq,
                              !.http = reply.status, !.resp = reply,
                              !.decision = reply.decision]
    /\ UNCHANGED <<sessions_b, finalAck>>
    /\ UNCHANGED ingestVars

\* POST /ingest-final as the authority handles it.
IngestFinal(sid, bytes) ==
    /\ IngestFinalEffect(sid, bytes)
    /\ last' = [NoLast EXCEPT !.op = "ingest_final", !.sid = sid,
                              !.http = IngestFinalStatus, !.keys = {"saved", "path"}]
    /\ UNCHANGED <<session_counts, inbox>>
    /\ UNCHANGED ingestVars

\* upload_chunk in front of the reference authority, for the next fragment
\* of a client that uploads "001", "002", ... one at a time.
UploadToReference(sid, container, payload) ==
    LET seq == SeqToken(nUploads + 1)
        n == CountOf(session_counts, sid) + 1
    IN
    /\ nUploads < E2EUploads
    /\ UploadChunk(sid, seq, container, payload, {IngestChunkReply(n)}, {IngestFinalStatus})
    /\ IF last'.asked
       THEN IngestChunkEffect(sid, seq, OutPath(seq, container).ext, payload)
       ELSE UNCHANGED <<inbox, session_counts>>
    /\ IF last'.submitted
       THEN IngestFinalEffect(sid, finalWav'[sid])
       ELSE UNCHANGED <<sessions_b, finalAck>>
    /\ UNCHANGED inflight

\* upload_chunk in front of some authority, which answers from R: the
\* reference authority is not involved.
UploadToAuthority(sid, seq, container, payload, R) ==
    /\ nUploads < MaxUploads
    /\ UploadChunk(sid, seq, container, payload, R, FinalResponses)
    /\ UNCHANGED <<inflight, judgeVars>>

Next ==
    \/ \E sid \in Sessions : Start(sid)
    \/ \E sid \in Sessions, seq \in Tokens, container \in Containers,
          payload \in Payloads :
          UploadToAuthority(sid, seq, container, payload, VerdictResponses)
    \/ \E sid \in Sessions : Finalize(sid)
    \/ \E sid \in Sessions : Download(sid)

Spec == Init /\ [][Next]_vars

\* The same server in front of an authority, or a network, that may fail.
NextFailOpen ==
    \/ \E sid \in Sessions : Start(sid)
    \/ \E sid \in Sessions, seq \in Tokens, container \in Containers,
          payload \in Payloads :
          UploadToAuthority(sid, seq, container, payload, JudgeResponses)
    \/ \E sid \in Sessions : Finalize(sid)
    \/ \E sid \in Sessions : Download(sid)

SpecFailOpen == Init /\ [][NextFailOpen]_vars

\* The container one client records in (upload_chunk's default).
ClientContainers == {"ogg"}

\* The end-to-end scenario: one client, the reference authority.
NextE2E ==
    \/ \E sid \in Sessions : Start(sid)
    \/ \E sid \in Sessions, container \in ClientContainers, payload \in Payloads :
          UploadToReference(sid, container, payload)
    \/ \E sid \in Sessions : Finalize(sid)
    \/ \E sid \in Sessions : Download(sid)

SpecE2E == Init /\ [][NextE2E]_vars

\* seq is not below the seq of any fragment the session has stored.
InOrder(sid, seq) == \A f \in DOMAIN raw[sid] : StrLeq(f.stem, seq)

\* A client that uploads fixed-width tokens in non-decreasing order, one
\* request at a time, in front of any authority that works.
NextInOrder ==
    \/ \E sid \in Sessions : Start(sid)
    \/ \E sid \in Sessions, seq \in FixedWidthTokens, container \in Containers,
          payload \in Payloads :
          /\ InOrder(sid, seq)
          /\ UploadToAuthority(sid, seq, container, payload, VerdictResponses)
    \/ \E sid \in Sessions : Finalize(sid)
    \/ \E sid \in Sessions : Download(sid)

SpecInOrder == Init /\ [][NextInOrder]_vars

\* Uploads of one client to one session handled concurrently, without a
\* lock.
NextRace ==
    \/ \E sid \in Sessions : Start(sid)
    \/ \E r \in Requests, sid \in Sessions, seq \in Tokens,
          container \in ClientContainers, payload \in Payloads :
          RaceBegin(r, sid, seq, container, payload)
    \/ \E r \in Requests, resp \in VerdictResponses : RaceUpdate(r, resp)
    \/ \E r \in Requests : RaceBuild(r)

SpecRace == Init /\ [][NextRace]_vars

\* The sessions whose servers talk to the authority.
JudgeSessions == {"s1", "s2"}

\* Final files as build_final_wav makes them: one or two segments of
\* decodable payloads.
FinalFiles ==
    LET good == {b \in Payloads : Decodable(b)}
    IN {ConcatCopy(<<1>>, <<Normalize(b)>>) : b \in good} \cup
       {ConcatCopy(<<1, 2>>, <<Normalize(b), Normalize(c)>>) : b, c \in good}

\* The reference authority by itself, called for several sessions; each
\* session sends its fragments "001", "002", ... in order.
NextJudge ==
    \/ \E sid \in JudgeSessions, container \in Exts, payload \in Payloads :
          /\ CountOf(session_counts, sid) < MaxUploads
          /\ IngestChunk(sid, SeqToken(CountOf(session_counts, sid) + 1), container, payload)
    \/ \E sid \in JudgeSessions, bytes \in FinalFiles : IngestFinal(sid, bytes)

SpecJudge == Init /\ [][NextJudge]_vars

\* ================================================================ claims
\* The metadata load_meta gives for sid, now and after the step.
MetaNow(sid) == LoadMeta(metaFile, sid)

MetaNext(sid) == LoadMeta(metaFile', sid)

\* The step handles an upload_chunk request of session sid.
UploadStepOf(sid) == nUploads' # nUploads /\ last'.sid = sid

\* The step runs build_final_wav for session sid (from upload or finalize).
BuildStepOf(sid) == last'.built /\ last'.sid = sid

\* What an assembly of sid in this step starts from: the fragments in
\* range among those stored when it runs.
InRangeFiles(sid) ==
    {f \in DOMAIN raw'[sid] :
        InRange(f.stem, MetaNext(sid).start_seq, MetaNext(sid).end_seq)}

\* For a fragment f of the in-range files R: a segment exists when its turn
\* comes (cached before the step, or written for a file of the same seq
\* that sorts before it).
HasSegment(sid, R, f) ==
    \/ f.stem \in DOMAIN wav[sid]
    \/ \E g \in R :
          /\ g.stem = f.stem
          /\ LexLess(NameCodes(g), NameCodes(f))
          /\ Decodable(raw'[sid][g])

\* The fragments of R on which the conversion fails.
FailingFiles(sid, R) ==
    {f \in R : ~HasSegment(sid, R, f) /\ ~Decodable(raw'[sid][f])}

\* C1: once a session's persisted state is 'ended' it stays as it is, and
\* every upload_chunk for it stores the fragment, does not ask the
\* authority, answers decision 'continue', and neither assembles nor submits.
C1_TerminalState ==
    [][\A sid \in Sessions :
          MetaNow(sid).state = "ended" =>
            /\ MetaNext(sid) = MetaNow(sid)
            /\ UploadStepOf(sid) =>
                 /\ \E f \in FileNames, b \in Payloads :
                       f.stem = last'.seq /\ raw'[sid] = Put(raw[sid], f, b)
                 /\ ~last'.asked
                 /\ last'.http = 200
                 /\ last'.keys = {"decision"}
                 /\ last'.decision = "continue"
                 /\ ~last'.built
                 /\ ~last'.submitted
                 /\ asmByUpload' = asmByUpload
                 /\ concatTxt' = concatTxt
                 /\ finalWav' = finalWav]_vars

\* An upload was handled for a session that had ended.
C1_Witness ==
    /\ last.op = "upload"
    /\ ~last.asked
    /\ last.decision = "continue"
    /\ MetaNow(last.sid).state = "ended"

\* C2: upload_chunk calls build_final_wav at most once per session, and it
\* does so exactly in the request that gets the verdict 'end', which is the
\* first such request and finds the session not ended.
C2_AssemblyOnce ==
    [][\A sid \in Sessions :
          /\ asmByUpload'[sid] <= 1
          /\ (asmByUpload'[sid] # asmByUpload[sid]) <=>
                (UploadStepOf(sid) /\ last'.verdict = "end")
          /\ (UploadStepOf(sid) /\ last'.verdict = "end") =>
                /\ asmByUpload[sid] = 0
                /\ asmByUpload'[sid] = 1
                /\ MetaNow(sid).state # "ended"
                /\ last'.built
          /\ (UploadStepOf(sid) /\ last'.verdict # "end") => ~last'.built]_vars

\* After the assembly an upload triggered, a later upload did not assemble.
C2_Witness ==
    /\ last.op = "upload"
    /\ ~last.built
    /\ asmByUpload[last.sid] = 1

\* C3: start_seq and end_seq never change once they are non-null.
C3_BoundaryImmutable ==
    [][\A sid \in Sessions :
          /\ MetaNow(sid).start_seq # None =>
                MetaNext(sid).start_seq = MetaNow(sid).start_seq
          /\ MetaNow(sid).end_seq # None =>
                MetaNext(sid).end_seq = MetaNow(sid).end_seq]_vars

\* A second 'start' verdict came, for another seq, with start_seq set.
C3_Witness ==
    /\ last.op = "upload"
    /\ last.verdict = "start"
    /\ MetaNow(last.sid).start_seq # None
    /\ MetaNow(last.sid).start_seq # last.seq

\* C4: no session has end_seq non-null while start_seq is null.
C4_EndOnlyAfterStart ==
    \A sid \in Sessions :
        MetaNow(sid).end_seq # None => MetaNow(sid).start_seq # None

\* C5: every upload_chunk response carries a decision, continue, start or
\* end, and it is 'end' when the verdict is 'end', also when the assembly
\* it triggers fails.
C5_UploadAlwaysDecides ==
    last.op = "upload" =>
        /\ "decision" \in last.keys
        /\ last.decision \in {"continue", "start", "end"}
        /\ last.verdict = "end" => last.decision = "end"

\* The authority's answers C6 lists: a timeout, a transport failure, an
\* error status (whatever the body), a body that is not JSON, a decision
\* that is neither start nor end.
FailOpenCase(resp) ==
    \/ resp.kind \in {"timeout", "transport"}
    \/ /\ resp.kind = "http"
       /\ \/ resp.status >= 500
          \/ resp.shape = "garbage"
          \/ /\ resp.shape = "object"
             /\ resp.decision \notin {"start", "end", "START", "END"}

\* C6: on each of those answers send_to_judge gives 'continue', the
\* upload answers decision 'continue' and the metadata is unchanged.
C6_FailOpen ==
    [][\A sid \in Sessions :
          (UploadStepOf(sid) /\ last'.asked /\ FailOpenCase(last'.resp)) =>
             /\ last'.verdict = "continue"
             /\ last'.http = 200
             /\ last'.decision = "continue"
             /\ metaFile' = metaFile]_vars

\* C7: after a successful assembly concat.txt lists, in strictly
\* ascending seq order, exactly the seq in [start_seq, end_seq] of the
\* stored fragments that have a normalized segment.
C7_RangeAndOrder ==
    (last.built /\ last.buildErr = "none") =>
        LET sid == last.sid
            list == concatTxt[sid]
            lo == MetaNow(sid).start_seq
            hi == MetaNow(sid).end_seq
        IN /\ \A i \in 1..(Len(list) - 1) : LexLess(list[i], list[i + 1])
           /\ {list[i] : i \in 1..Len(list)} =
                 {f.stem : f \in {g \in DOMAIN raw[sid] :
                                     /\ StrLeq(lo, g.stem)
                                     /\ StrLeq(g.stem, hi)
                                     /\ g.stem \in DOMAIN wav[sid]}}

\* C8: when some in-range fragment has or gets a segment, the assembly
\* succeeds; the output holds the segment of each such fragment, in
\* ascending seq order; the skip list has one (name, cause) entry for
\* each fragment that failed and no other entry.
C8_PartialFailure ==
    [][\A sid \in Sessions :
          (/\ BuildStepOf(sid)
           /\ MetaNext(sid).start_seq # None /\ MetaNext(sid).end_seq # None) =>
             \A R \in {InRangeFiles(sid)} : \A F \in {FailingFiles(sid, R)} :
               (F # R) =>
                 /\ last'.buildErr = "none"
                 /\ last'.http = 200
                 /\ \A list \in {concatTxt'[sid]}, out \in {finalWav'[sid].pcm},
                       skip \in {last'.skipped} :
                      /\ Len(out) = Len(list)
                      /\ \A i \in 1..(Len(list) - 1) : StrLeq(list[i], list[i + 1])
                      /\ \A i \in 1..Len(list) : out[i] = wav'[sid][list[i]].pcm
                      /\ \A f \in R \ F :
                            /\ \E i \in 1..Len(list) : list[i] = f.stem
                            /\ ~HasSegment(sid, R, f) =>
                                  wav'[sid][f.stem] = Normalize(raw'[sid][f])
                      /\ \A f \in R :
                            Cardinality({i \in 1..Len(skip) : skip[i][1] = f}) =
                               IF f \in F THEN 1 ELSE 0
                      /\ \A i \in 1..Len(skip) :
                            skip[i][1] \in R /\ skip[i][2] = "ffmpeg failed"]_vars

\* An assembly succeeded although a fragment failed to normalize.
C8_Witness ==
    /\ last.built
    /\ last.buildErr = "none"
    /\ Len(last.skipped) >= 1
    /\ Len(concatTxt[last.sid]) >= 1

\* C9: when the range is non-empty and every in-range fragment fails to
\* normalize, the assembly fails with the total-decode-failure error and
\* the final output (and concat.txt) is as it was.
C9_TotalFailure ==
    [][\A sid \in Sessions :
          (/\ BuildStepOf(sid)
           /\ MetaNext(sid).start_seq # None /\ MetaNext(sid).end_seq # None) =>
             \A R \in {InRangeFiles(sid)} :
               (R # {} /\ FailingFiles(sid, R) = R) =>
                 /\ last'.buildErr = "total_decode_failure"
                 /\ last'.http = 500
                 /\ finalWav' = finalWav
                 /\ concatTxt' = concatTxt]_vars

\* An assembly found fragments in range and could decode none.
C9_Witness ==
    /\ last.built
    /\ last.buildErr = "total_decode_failure"
    /\ Len(last.parts) >= 1
    /\ last.sid \notin DOMAIN finalWav

\* C10: with start_seq or end_seq null the assembly fails with the
\* not-ready error before it selects or converts any fragment, writing
\* nothing; finalize then leaves the metadata as it is.
C10_NotReady ==
    [][\A sid \in Sessions :
          (BuildStepOf(sid) /\ (MetaNext(sid).start_seq = None \/ MetaNext(sid).end_seq = None)) =>
             /\ last'.buildErr = "not_ready"
             /\ last'.http = 500
             /\ last'.parts = <<>>
             /\ last'.invoked = <<>>
             /\ wav' = wav
             /\ finalWav' = finalWav
             /\ concatTxt' = concatTxt
             /\ last'.op = "finalize" => metaFile' = metaFile]_vars

\* finalize was refused as not ready in a session that is recording and
\* has fragments stored.
C10_Witness ==
    /\ last.op = "finalize"
    /\ last.buildErr = "not_ready"
    /\ MetaNow(last.sid).start_seq # None
    /\ DOMAIN raw[last.sid] # {}

\* C11: final.wav of a session exists exactly when it existed before or an
\* assembly of the session succeeds in the step, whether or not the
\* submission to the authority succeeded; download answers with the file
\* exactly when it exists and with not-found otherwise.
C11_DownloadIffAssembled ==
    [][\A sid \in Sessions :
          /\ (sid \in DOMAIN finalWav') <=>
                \/ sid \in DOMAIN finalWav
                \/ BuildStepOf(sid) /\ last'.buildErr = "none"
          /\ (UploadStepOf(sid) /\ last'.submitted /\ ~last'.finalSent) =>
                sid \in DOMAIN finalWav'
          /\ (last'.op = "download" /\ last'.sid = sid) =>
                /\ finalWav' = finalWav
                /\ IF sid \in DOMAIN finalWav
                   THEN last'.http = 200 /\ last'.keys = {"file"}
                   ELSE last'.http = 404 /\ last'.error = "not ready"]_vars

\* download answered with the file of a session an upload had assembled.
C11_Witness ==
    /\ last.op = "download"
    /\ last.http = 200
    /\ asmByUpload[last.sid] = 1
    /\ last.sid \in DOMAIN finalWav

\* The decodable payloads of the fragments StartAt..EndAt, in order.
E2EExpected(sid) ==
    LET f(k) == [stem |-> SeqToken(k), ext |-> "ogg"]
        ks == SelectSeq([i \in 1..(EndAt - StartAt + 1) |-> StartAt + i - 1],
                        LAMBDA k : Decodable(raw[sid][f(k)]))
    IN [i \in 1..Len(ks) |-> raw[sid][f(ks[i])]]

\* C12: with the reference authority and uploads "001", "002", ... one at
\* a time: 001 gets continue; 002 start (recording, start_seq "002");
\* 003..007 continue; 008 a response with decision end, finalSent and
\* skipped (ended, end_seq "008"); once 008 is uploaded and one of
\* 002..008 normalizes, download gives the assembled output.
C12_EndToEnd ==
    \A sid \in Sessions :
        LET m == MetaNow(sid)
            rec == [state |-> "recording", start_seq |-> SeqToken(StartAt), end_seq |-> None]
            done == [state |-> "ended", start_seq |-> SeqToken(StartAt),
                     end_seq |-> SeqToken(EndAt)]
        IN
        /\ (last.op = "upload" /\ last.sid = sid) =>
              /\ nUploads < StartAt =>
                    last.http = 200 /\ last.decision = "continue" /\ m = DefaultMeta
              /\ nUploads = StartAt =>
                    last.http = 200 /\ last.decision = "start" /\ m = rec
              /\ (nUploads > StartAt /\ nUploads < EndAt) =>
                    last.http = 200 /\ last.decision = "continue" /\ m = rec
              /\ nUploads = EndAt =>
                    /\ last.http = 200
                    /\ last.keys = {"decision", "finalSent", "skipped"}
                    /\ last.decision = "end"
                    /\ last.finalSent \in BOOLEAN
                    /\ m = done
        /\ (/\ last.op = "download" /\ last.sid = sid
            /\ nUploads >= EndAt
            /\ \E f \in DOMAIN raw[sid] :
                  /\ InRange(f.stem, SeqToken(StartAt), SeqToken(EndAt))
                  /\ Decodable(raw[sid][f])) =>
              /\ last.http = 200
              /\ finalWav[sid].pcm = E2EExpected(sid)

\* C13: an assembly keeps every segment that exists and does not run the
\* transcoder for its seq; an assembly that follows a successful one of
\* the same session, nothing changed in between, succeeds with the same
\* segment list and skips no fragment that succeeded the first time.
C13_IdempotentNormalization ==
    [][\A sid \in Sessions :
          BuildStepOf(sid) =>
            /\ \A t \in DOMAIN wav[sid] :
                  /\ t \in DOMAIN wav'[sid]
                  /\ wav'[sid][t] = wav[sid][t]
                  /\ \A i \in 1..Len(last'.invoked) : last'.invoked[i].stem # t
            /\ (/\ last.built /\ last.sid = sid /\ last.buildErr = "none"
                /\ raw' = raw /\ metaFile' = metaFile) =>
                  /\ last'.buildErr = "none"
                  /\ concatTxt'[sid] = concatTxt[sid]
                  /\ finalWav'[sid] = finalWav[sid]
                  /\ \A i \in 1..Len(last.parts) :
                        (\A j \in 1..Len(last.skipped) : last.skipped[j][1] # last.parts[i]) =>
                        (\A j \in 1..Len(last'.skipped) : last'.skipped[j][1] # last.parts[i])]_vars

\* C14: the file the authority acknowledged as saved for a session holds
\* the bytes that session delivered last, whatever other sessions
\* delivered since.
C14_FinalPerSession ==
    \A sid \in DOMAIN finalAck :
        /\ finalAck[sid].path \in DOMAIN sessions_b
        /\ sessions_b[finalAck[sid].path] = finalAck[sid].bytes

\* Request r saves (or passes its save) in this step.
UpdateStepOf(r) ==
    /\ r \in DOMAIN inflight
    /\ inflight[r].pc = "loaded"
    /\ r \notin DOMAIN inflight' \/ inflight'[r].pc = "build"

\* The metadata request r loaded is no longer what is stored.
StaleRead(r) == inflight[r].meta # MetaNow(inflight[r].sid)

\* The step does to session sid what no sequence of whole requests does:
\* the session leaves 'ended', or a boundary that is set changes.
BreaksMeta(sid) ==
    \/ MetaNow(sid).state = "ended" /\ MetaNext(sid).state # "ended"
    \/ MetaNow(sid).start_seq # None /\ MetaNext(sid).start_seq # MetaNow(sid).start_seq
    \/ MetaNow(sid).end_seq # None /\ MetaNext(sid).end_seq # MetaNow(sid).end_seq

\* C15: with upload_chunk requests of one session interleaving between
\* load_meta and save_meta, a session leaves 'ended', a set start_seq or
\* end_seq is replaced or reset, or a request goes on to assemble a
\* session already saved as ended, only by the save of a request whose
\* loaded metadata is stale; and such states are reached.
C15_StaleWriteRace ==
    [][\A sid \in Sessions :
          /\ BreaksMeta(sid) =>
                \E r \in DOMAIN inflight : inflight[r].sid = sid /\ UpdateStepOf(r)
          /\ \A r \in DOMAIN inflight :
                (/\ inflight[r].sid = sid
                 /\ UpdateStepOf(r)
                 /\ \/ BreaksMeta(sid)
                    \/ /\ MetaNow(sid).state = "ended"
                       /\ r \in DOMAIN inflight' /\ inflight'[r].pc = "build") =>
                   StaleRead(r)]_vars

\* A session whose 'end' was saved and whose assembly was triggered is
\* recording again, its end_seq null.
C15_Witness ==
    \E sid \in Sessions :
        /\ asmByUpload[sid] >= 1
        /\ MetaNow(sid).state = "recording"
        /\ MetaNow(sid).start_seq # None
        /\ MetaNow(sid).end_seq = None

\* The session was ended by an 'end' verdict that found it waiting.
EndedUnstarted(meta) == meta.state = "ended" /\ meta.start_seq = None

\* C16: an 'end' verdict for a waiting session saves {ended, start_seq
\* null, end_seq = seq}, and the assembly it triggers, which sees that
\* record, fails as not ready; from then on the metadata stays as it is,
\* every assembly fails as not ready, no final.wav comes to exist and
\* download answers not-found.
C16_EndWhileWaiting ==
    [][\A sid \in Sessions :
          /\ (UploadStepOf(sid) /\ last'.verdict = "end" /\ MetaNow(sid).state = "waiting") =>
                /\ MetaNext(sid) = [state |-> "ended", start_seq |-> None,
                                    end_seq |-> last'.seq]
                /\ last'.built
                /\ last'.buildErr = "not_ready"
          /\ EndedUnstarted(MetaNow(sid)) => MetaNext(sid) = MetaNow(sid)
          /\ EndedUnstarted(MetaNext(sid)) =>
                /\ sid \notin DOMAIN finalWav'
                /\ sid \notin DOMAIN concatTxt'
                /\ BuildStepOf(sid) => last'.buildErr = "not_ready" /\ last'.http = 500
                /\ (last'.op = "download" /\ last'.sid = sid) => last'.http = 404]_vars

\* After more uploads and a refused finalize, download still answers
\* not-found for a session ended while waiting.
C16_Witness ==
    /\ last.op = "download"
    /\ last.http = 404
    /\ EndedUnstarted(MetaNow(last.sid))
    /\ nUploads >= 2
    /\ \E f \in DOMAIN raw[last.sid] : Decodable(raw[last.sid][f])

\* C17: under sequential requests the metadata of a session changes only
\* in an upload, by waiting -> recording on verdict start (start_seq :=
\* seq, nothing else) or by waiting/recording -> ended on verdict end
\* (end_seq := seq, nothing else); 'continue' in waiting or recording and
\* 'start' in recording change nothing and are answered as the decision.
C17_TransitionRelation ==
    [][\A sid \in Sessions :
          LET now == MetaNow(sid)
              nxt == MetaNext(sid)
          IN
          /\ nxt # now =>
                /\ UploadStepOf(sid)
                /\ last'.asked
                /\ \/ /\ now.state = "waiting"
                      /\ last'.verdict = "start"
                      /\ nxt = [now EXCEPT !.state = "recording", !.start_seq = last'.seq]
                   \/ /\ now.state \in {"waiting", "recording"}
                      /\ last'.verdict = "end"
                      /\ nxt = [now EXCEPT !.state = "ended", !.end_seq = last'.seq]
          /\ (/\ UploadStepOf(sid)
              /\ last'.asked
              /\ \/ last'.verdict = "continue"
                 \/ last'.verdict = "start" /\ now.state = "recording") =>
                /\ nxt = now
                /\ last'.http = 200
                /\ last'.keys = {"decision"}
                /\ last'.decision = last'.verdict]_vars

\* A 'start' verdict for a recording session was answered as 'start' and
\* left start_seq as it was.
C17_Witness ==
    /\ last.op = "upload"
    /\ last.asked
    /\ last.verdict = "start"
    /\ last.decision = "start"
    /\ MetaNow(last.sid).state = "recording"
    /\ LexLess(MetaNow(last.sid).start_seq, last.seq)

\* C18: the concatenation list an assembly writes names the segment of a
\* seq at most once.
C18_SegmentAtMostOnce ==
    \A sid \in DOMAIN concatTxt :
        \A i, j \in 1..Len(concatTxt[sid]) :
            concatTxt[sid][i] = concatTxt[sid][j] => i = j

\* C19: after a successful assembly each segment of the list is the
\* normalization of bytes now stored as a fragment of that seq.
C19_ReflectsStoredFragments ==
    \A sid \in Sessions :
        (last.built /\ last.sid = sid /\ last.buildErr = "none") =>
            \A i \in 1..Len(concatTxt[sid]) :
                \E f \in DOMAIN raw[sid] :
                    /\ f.stem = concatTxt[sid][i]
                    /\ Decodable(raw[sid][f])
                    /\ wav[sid][f.stem] = Normalize(raw[sid][f])

\* C20: with fixed-width tokens uploaded in non-decreasing order, the
\* 'end' verdict of a recording session leaves start_seq <= end_seq, and
\* the assembly it triggers selects a non-empty range that holds the end
\* fragment, so it does not fail with the empty-range error.
C20_InOrderNonEmptyRange ==
    [][\A sid \in Sessions :
          (UploadStepOf(sid) /\ last'.verdict = "end"
              /\ MetaNow(sid).state = "recording") =>
             /\ StrLeq(MetaNext(sid).start_seq, MetaNext(sid).end_seq)
             /\ last'.built
             /\ last'.buildErr # "empty_range"
             /\ last'.buildErr # "not_ready"
             /\ \E i \in 1..Len(last'.parts) : last'.parts[i].stem = last'.seq]_vars

\* The session started at "009" and its 'end' upload "010" assembled
\* both fragments.
C20_Witness ==
    /\ last.op = "upload"
    /\ last.verdict = "end"
    /\ last.built
    /\ MetaNow(last.sid).start_seq = SeqToken(9)
    /\ MetaNow(last.sid).end_seq = SeqToken(10)
    /\ Len(last.parts) = 2

====
